---- MODULE Spec2Model ----
(***************************************************************************)
(* voxgen: the dense voxel buffers (buffer.rs: VolumeBuffer,               *)
(* voxel_buffer.rs: ArrayVoxelBuffer), their coordinate/index arithmetic,  *)
(* the voxel enumeration and the MagicaVoxel .vox encoder (save).          *)
(*                                                                         *)
(* Conventions.  A Rust Option is a sequence of length 0 (None) or 1       *)
(* (Some(v)).  A Rust array, slice or Vec is a TLA+ sequence; Rust's       *)
(* 0-based position k is TLA+ position k + 1.  A range lo..hi is the pair  *)
(* <<lo, hi>>.  u8 arithmetic is taken modulo 2^8.  usize and u32 values   *)
(* of the buffers explored here stay far below 2^31, so their arithmetic   *)
(* is exact.                                                               *)
(***************************************************************************)
EXTENDS Integers, Sequences, FiniteSets, TLC

VARIABLES
    kind,         \* which buffer type this run owns: "VolumeBuffer" or "ArrayVoxelBuffer"
    buf,          \* the buffer: [width, depth, height, data] (size_x, size_y, size_z for ArrayVoxelBuffer)
    err,          \* "none", or the panic that aborted the program
    ret,          \* the value returned by the last id / coordinate call
    it,           \* the live EnumerateVoxels iterator, as an Option
    yielded,      \* what the calls of next() on `it` returned so far, in order
    save_locals,  \* save's locals (color_indices, index, xyzis) when it returned or panicked
    result,       \* what the last save returned: "none" (never called), "Ok", "Err"
    written,      \* the byte streams of the last two successful saves, latest last
    l_system,     \* the LSystem built by LSystem::new, as an Option: [axiom, productions]
    turtle,       \* the Turtle of a TurtleGraphics that owns buf, as an Option
    calls,        \* the calls made on the TurtleGraphics so far, in order: [op, args]
    usize_bytes   \* the width of usize on the target, in bytes

vars == <<kind, buf, err, ret, it, yielded, save_locals, result, written, l_system, turtle, calls, usize_bytes>>

---------------------------------------------------------------------------
(* Bounds of the exploration. *)

\* Each dimension of an explored buffer is in 0..MaxDim.
MaxDim == 3
\* An explored buffer holds at most MaxVoxels voxels.
MaxVoxels == 8
\* A buffer that is saved holds at most MaxSaveVoxels voxels.
MaxSaveVoxels == 4
\* At most MaxSet voxels of an explored buffer are non-zero.
MaxSet == 2
\* next() is called at most MaxExtraNext times after the iterator has ended.
MaxExtraNext == 2

(* Program constants. *)

CHANNEL_COUNT_RGBA == 4
SIZE == CHANNEL_COUNT_RGBA
INT_SIZE == 4
PALETTE_COUNT == 256
VOX_VERSION == 150
U8Mod == 2 ^ 8
USIZE_BYTES_64 == 64 \div 8
USIZE_BYTES_32 == 32 \div 8
U32_BYTES == 32 \div 8

None == <<>>
Some(v) == <<v>>

\* `v as u8`
as_u8(v) == v % U8Mod

\* u32::to_le_bytes(v), for v < 2^31
to_le_bytes(v) ==
    << v % U8Mod, (v \div U8Mod) % U8Mod, (v \div (U8Mod * U8Mod)) % U8Mod,
       (v \div (U8Mod * U8Mod * U8Mod)) % U8Mod >>

\* The voxel values written by the callers explored: the zero voxel, a
\* transparent voxel with colour bytes, and two opaque colours.
ZERO_RGBA == <<0, 0, 0, 0>>
Colours == { ZERO_RGBA, <<7, 0, 0, 0>>, <<255, 0, 0, 255>>, <<0, 0, 255, 1>> }

---------------------------------------------------------------------------
(* Construction. *)

\* VolumeBuffer::len / ArrayVoxelBuffer::len.  The checked products of the
\* buffers explored are far below usize::MAX, so every checked_mul is Some.
len(width, depth, height) == Some(SIZE * width * depth * height)

\* VolumeBuffer::new / ArrayVoxelBuffer::new: vec![0; len]
new(width, depth, height) ==
    [ width  |-> width,
      depth  |-> depth,
      height |-> height,
      data   |-> [k \in 1..len(width, depth, height)[1] |-> 0] ]

---------------------------------------------------------------------------
(* Coordinate and index arithmetic of VolumeBuffer. *)

id_unchecked(b, x, y, z) == x + (y * b.width) + (z * b.width * b.depth)

id(b, x, y, z) ==
    IF x >= b.width \/ y >= b.depth \/ z >= b.height
    THEN None
    ELSE Some(id_unchecked(b, x, y, z))

\* A variant that divides the plane by the depth instead of the width.
coordinate_unchecked_by_depth(b, i) ==
    LET z     == i \div (b.width * b.depth)
        plane == i - (z * b.width * b.depth)
        y     == plane \div b.depth
        x     == plane % b.depth
    IN  <<x, y, z>>

coordinate_unchecked(b, i) ==
    LET z     == i \div (b.width * b.depth)
        plane == i - (z * b.width * b.depth)
        y     == plane \div b.width
        x     == plane % b.width
    IN  <<x, y, z>>

coordinate(b, i) ==
    IF i >= b.width * b.depth * b.height
    THEN None
    ELSE Some(coordinate_unchecked(b, i))

indices_unchecked(unsized_index) ==
    LET min_index == unsized_index * SIZE
    IN  <<min_index, min_index + SIZE>>

indices(b, x, y, z) ==
    LET i == id(b, x, y, z)
    IN  IF i = None THEN None ELSE Some(indices_unchecked(i[1]))

(* Coordinate arithmetic of ArrayVoxelBuffer. *)

voxel_indices_unchecked(b, x, y, z) ==
    LET min_index_unsized == x + (y * b.width) + (z * b.width * b.depth)
        min_index         == min_index_unsized * SIZE
    IN  <<min_index, min_index + SIZE>>

voxel_indices(b, x, y, z) ==
    IF x >= b.width \/ y >= b.depth \/ z >= b.height
    THEN None
    ELSE Some(voxel_indices_unchecked(b, x, y, z))

\* &data[lo..hi]
slice(data, range) == SubSeq(data, range[1] + 1, range[2])

\* Rgba::from_slice: the four bytes of the window, viewed as an Rgba
from_slice(window) == window

\* data with the window `range` overwritten by the bytes of `rgba`
\* (an assignment through Rgba::from_slice_mut)
store(data, range, rgba) ==
    SubSeq(data, 1, range[1]) \o rgba \o SubSeq(data, range[2] + 1, Len(data))

\* The byte window of (x, y, z) in the buffer of this run.
window_of(b, x, y, z) ==
    IF kind = "VolumeBuffer" THEN indices(b, x, y, z) ELSE voxel_indices(b, x, y, z)

\* VolumeBuffer::get / ArrayVoxelBuffer::voxel on a coordinate in bounds
voxel(b, x, y, z) == from_slice(slice(b.data, window_of(b, x, y, z)[1]))

---------------------------------------------------------------------------
(* The states after construction. *)

Dims == 0..MaxDim
Shapes == { s \in Dims \X Dims \X Dims : s[1] * s[2] * s[3] <= MaxVoxels }

NoCall == [op |-> "none", args |-> <<>>, val |-> None]

InitWith(kinds, shapes) ==
    /\ kind \in kinds
    /\ \E s \in shapes : buf = new(s[1], s[2], s[3])
    /\ err = "none"
    /\ ret = NoCall
    /\ it = None
    /\ yielded = <<>>
    /\ save_locals = None
    /\ result = "none"
    /\ written = <<>>
    /\ l_system = None
    /\ turtle = None
    /\ calls = <<>>
    /\ usize_bytes = USIZE_BYTES_64

ShapesSave == { s \in Shapes : s[1] * s[2] * s[3] <= MaxSaveVoxels }

Init == InitWith({"VolumeBuffer", "ArrayVoxelBuffer"}, ShapesSave)

---------------------------------------------------------------------------
(* Writing a voxel. *)

\* *buf.get_mut(x, y, z) = rgba  /  *buf.voxel_mut(x, y, z) = rgba
GetMut(x, y, z, rgba) ==
    /\ err = "none"
    /\ LET w == window_of(buf, x, y, z)
       IN  IF w = None
           THEN /\ err' = "out_of_bounds"
                /\ UNCHANGED buf
           ELSE /\ buf' = [buf EXCEPT !.data = store(@, w[1], rgba)]
                /\ UNCHANGED err
    /\ UNCHANGED <<kind, ret, it, yielded, save_locals, result, written, l_system, turtle, calls, usize_bytes>>

\* The number of non-zero voxels of a buffer.
NonZeroVoxels(b) ==
    Cardinality({ i \in 0..((Len(b.data) \div SIZE) - 1) :
                    slice(b.data, indices_unchecked(i)) # ZERO_RGBA })

\* The callers explored populate the buffer before they enumerate or save
\* it, and set at most MaxSet voxels.  Each coordinate they pass is inside
\* the buffer or the first one outside it.
Populate ==
    /\ it = None
    /\ result = "none"
    /\ \E x \in 0..buf.width, y \in 0..buf.depth, z \in 0..buf.height, rgba \in Colours :
          /\ GetMut(x, y, z, rgba)
          /\ NonZeroVoxels(buf') <= MaxSet

---------------------------------------------------------------------------
(* Buffers wider than the palette: a row of voxels (W, 1, 1) that a caller *)
(* fills from x = 0 upwards with pairwise distinct values, as the loops of *)
(* the documentation examples fill a region with get_mut.                  *)

WideWidths == { PALETTE_COUNT - 1, PALETTE_COUNT, PALETTE_COUNT + 1 }
WideShapes == { <<w, 1, 1>> : w \in WideWidths }

\* How many voxels the caller fills.
RampLens == { PALETTE_COUNT - 3, PALETTE_COUNT - 2, PALETTE_COUNT - 1, PALETTE_COUNT }

\* The value written at x: distinct for distinct x, opaque for even x and
\* transparent for odd x, and none of Colours.
RampColour(x) ==
    << x % U8Mod, x \div U8Mod, 1, IF x % 2 = 0 THEN 255 ELSE 0 >>

\* for x in 0..n { *buf.get_mut(x, 0, 0) = Rgba(RampColour(x)) }: the buffer
\* after the loop, every window written holding the bytes stored in it.
fill(b, n) ==
    [ b EXCEPT !.data =
        [k \in 1..Len(@) |->
            LET x == (k - 1) \div SIZE
            IN  IF x < n /\ window_of(b, x, 0, 0) # None
                THEN store(@, window_of(b, x, 0, 0)[1], RampColour(x))[k]
                ELSE @[k]] ]

FillRamp(n) ==
    /\ err = "none"
    /\ it = None
    /\ result = "none"
    /\ n <= buf.width /\ buf.depth >= 1 /\ buf.height >= 1
    /\ buf = new(buf.width, buf.depth, buf.height)
    /\ buf' = fill(buf, n)
    /\ UNCHANGED <<kind, err, ret, it, yielded, save_locals, result, written, l_system, turtle, calls, usize_bytes>>

\* One more write, at the far end of the row.
PopulateLast ==
    /\ it = None
    /\ result = "none"
    /\ \E rgba \in Colours : GetMut(buf.width - 1, 0, 0, rgba)

---------------------------------------------------------------------------
(* Calls of VolumeBuffer::id and VolumeBuffer::coordinate. *)

CallId(x, y, z) ==
    /\ err = "none"
    /\ kind = "VolumeBuffer"
    /\ ret' = [op |-> "id", args |-> <<x, y, z>>, val |-> id(buf, x, y, z)]
    /\ UNCHANGED <<kind, buf, err, it, yielded, save_locals, result, written, l_system, turtle, calls, usize_bytes>>

CallCoordinate(i) ==
    /\ err = "none"
    /\ kind = "VolumeBuffer"
    /\ ret' = [op |-> "coordinate", args |-> <<i>>, val |-> coordinate(buf, i)]
    /\ UNCHANGED <<kind, buf, err, it, yielded, save_locals, result, written, l_system, turtle, calls, usize_bytes>>

---------------------------------------------------------------------------
(* VolumeBuffer::enumerate_voxels and EnumerateVoxels::next. *)

\* The iterator enumerate_voxels returns.  `rest` is what the ChunksExact
\* over the data has not handed out yet.
enumerate_voxels(b) ==
    [ rest |-> b.data, x |-> 0, y |-> 0, z |-> 0, width |-> b.width, depth |-> b.depth ]

\* One call of next(): the iterator after the call and the item returned.
enum_next_gt(i) ==
    LET wrap_x == i.x > i.width
        x1 == IF wrap_x THEN 0 ELSE i.x
        y1 == IF wrap_x THEN i.y + 1 ELSE i.y
        wrap_y == y1 > i.depth
        y2 == IF wrap_y THEN 0 ELSE y1
        z2 == IF wrap_y THEN i.z + 1 ELSE i.z
        has == Len(i.rest) >= SIZE
    IN  [ it   |-> [ i EXCEPT !.rest = IF has THEN SubSeq(@, SIZE + 1, Len(@)) ELSE @,
                              !.x = x1 + 1, !.y = y2, !.z = z2 ],
          item |-> IF has
                   THEN Some(<<x1, y2, z2, from_slice(SubSeq(i.rest, 1, SIZE))>>)
                   ELSE None ]

enum_next(i) ==
    LET wrap_x == i.x >= i.width
        x1 == IF wrap_x THEN 0 ELSE i.x
        y1 == IF wrap_x THEN i.y + 1 ELSE i.y
        wrap_y == y1 >= i.depth
        y2 == IF wrap_y THEN 0 ELSE y1
        z2 == IF wrap_y THEN i.z + 1 ELSE i.z
        has == Len(i.rest) >= SIZE
    IN  [ it   |-> [ i EXCEPT !.rest = IF has THEN SubSeq(@, SIZE + 1, Len(@)) ELSE @,
                              !.x = x1 + 1, !.y = y2, !.z = z2 ],
          item |-> IF has
                   THEN Some(<<x1, y2, z2, from_slice(SubSeq(i.rest, 1, SIZE))>>)
                   ELSE None ]

EnumerateVoxels ==
    /\ err = "none"
    /\ kind = "VolumeBuffer"
    /\ it = None
    /\ it' = Some(enumerate_voxels(buf))
    /\ yielded' = <<>>
    /\ UNCHANGED <<kind, buf, err, ret, save_locals, result, written, l_system, turtle, calls, usize_bytes>>

\* The number of calls of next() that returned None.
EndedCalls == Cardinality({ k \in 1..Len(yielded) : yielded[k] = None })

IterNext ==
    /\ err = "none"
    /\ it # None
    /\ EndedCalls < MaxExtraNext
    /\ LET r == enum_next(it[1])
       IN  /\ it' = Some(r.it)
           /\ yielded' = Append(yielded, r.item)
    /\ UNCHANGED <<kind, buf, err, ret, save_locals, result, written, l_system, turtle, calls, usize_bytes>>

---------------------------------------------------------------------------
(* save: the walk over the voxels (buffer.rs 268-289, voxel_buffer.rs      *)
(* 189-216).  The locals are color_indices (a HashMap, here a function     *)
(* from Rgba to index, with `keys` its keys in insertion order), the u8    *)
(* counter index and the Vec xyzis.  `panic` is "none" or the panic that   *)
(* ended the walk.                                                         *)

walk_start ==
    [ color_indices |-> <<>>, keys |-> <<>>, index |-> 1, xyzis |-> <<>>, panic |-> "none" ]

\* The body of the loop for one voxel.  `index += 1` on a u8 holding 255
\* panics in a build with overflow checks and wraps to 0 in one without.
\* A variant that never advances the index: every colour gets index 1.
visit_same_index(acc, x, y, z, rgba, overflow_checks) ==
    LET xyz    == <<as_u8(x), as_u8(y), as_u8(z)>>
        push(a, xyzi) == IF rgba[4] > 0 THEN [a EXCEPT !.xyzis = Append(@, xyzi)] ELSE a
    IN  IF acc.panic # "none"
        THEN acc
        ELSE IF rgba \in DOMAIN acc.color_indices
        THEN push(acc, Append(xyz, as_u8(acc.color_indices[rgba])))
        ELSE push([acc EXCEPT !.color_indices = @ @@ (rgba :> acc.index),
                              !.keys = Append(@, rgba)],
                  Append(xyz, acc.index))

visit(acc, x, y, z, rgba, overflow_checks) ==
    LET xyz    == <<as_u8(x), as_u8(y), as_u8(z)>>
        push(a, xyzi) == IF rgba[4] > 0 THEN [a EXCEPT !.xyzis = Append(@, xyzi)] ELSE a
    IN  IF acc.panic # "none"
        THEN acc
        ELSE IF rgba \in DOMAIN acc.color_indices
        THEN push(acc, Append(xyz, as_u8(acc.color_indices[rgba])))
        ELSE LET inserted == [acc EXCEPT !.color_indices = @ @@ (rgba :> acc.index),
                                         !.keys = Append(@, rgba)]
             IN  IF acc.index + 1 >= U8Mod /\ overflow_checks
                 THEN [inserted EXCEPT !.panic = "add_overflow"]
                 ELSE push([inserted EXCEPT !.index = (acc.index + 1) % U8Mod],
                           Append(xyz, acc.index))

\* The recursions below split the range of a loop in two halves, the first
\* half run before the second: the iterations happen in the order of the
\* loop, and the depth of the recursion stays logarithmic in the range.

\* VolumeBuffer::save: for (x, y, z, rgba) in self.enumerate_voxels().
\* `n` iterations from the state s = [it, acc]; an iteration calls next()
\* and runs the body on the item.
walk_step(s, overflow_checks) ==
    LET r == enum_next(s.it)
    IN  [ it  |-> r.it,
          acc |-> IF r.item = None
                  THEN s.acc
                  ELSE visit(s.acc, r.item[1][1], r.item[1][2], r.item[1][3],
                             r.item[1][4], overflow_checks) ]

RECURSIVE walk_steps(_, _, _)
walk_steps(s, n, overflow_checks) ==
    IF n = 0 THEN s
    ELSE IF n = 1 THEN walk_step(s, overflow_checks)
    ELSE LET s1 == walk_steps(s, n \div 2, overflow_checks)
         IN  IF s1.acc.panic # "none"
             THEN s1
             ELSE walk_steps(s1, n - (n \div 2), overflow_checks)

\* The loop ends at the first None of next(): ChunksExact hands out
\* len / SIZE chunks before it.
walk_enumerate(b, overflow_checks) ==
    walk_steps([it |-> enumerate_voxels(b), acc |-> walk_start],
               Len(b.data) \div SIZE, overflow_checks).acc

\* ArrayVoxelBuffer::save:
\* for z in 0..size_z { for y in 0..size_y { for x in 0..size_x { .. } } }
RECURSIVE loop_x(_, _, _, _, _, _, _)
loop_x(b, y, z, lo, hi, acc, overflow_checks) ==
    IF hi <= lo THEN acc
    ELSE IF hi = lo + 1
    THEN visit(acc, lo, y, z, from_slice(slice(b.data, voxel_indices(b, lo, y, z)[1])),
               overflow_checks)
    ELSE LET mid == (lo + hi) \div 2
             acc1 == loop_x(b, y, z, lo, mid, acc, overflow_checks)
         IN  IF acc1.panic # "none"
             THEN acc1
             ELSE loop_x(b, y, z, mid, hi, acc1, overflow_checks)

RECURSIVE loop_y(_, _, _, _, _, _)
loop_y(b, z, lo, hi, acc, overflow_checks) ==
    IF hi <= lo THEN acc
    ELSE IF hi = lo + 1 THEN loop_x(b, lo, z, 0, b.width, acc, overflow_checks)
    ELSE LET mid == (lo + hi) \div 2
             acc1 == loop_y(b, z, lo, mid, acc, overflow_checks)
         IN  IF acc1.panic # "none"
             THEN acc1
             ELSE loop_y(b, z, mid, hi, acc1, overflow_checks)

RECURSIVE loop_z(_, _, _, _, _)
loop_z(b, lo, hi, acc, overflow_checks) ==
    IF hi <= lo THEN acc
    ELSE IF hi = lo + 1 THEN loop_y(b, lo, 0, b.depth, acc, overflow_checks)
    ELSE LET mid == (lo + hi) \div 2
             acc1 == loop_z(b, lo, mid, acc, overflow_checks)
         IN  IF acc1.panic # "none"
             THEN acc1
             ELSE loop_z(b, mid, hi, acc1, overflow_checks)

walk_loops(b, overflow_checks) == loop_z(b, 0, b.height, walk_start, overflow_checks)

(* save: the bytes (buffer.rs 291-336, voxel_buffer.rs 218-263). *)

ZERO == <<0, 0, 0, 0>>
TAG_VOX  == <<86, 79, 88, 32>>
TAG_MAIN == <<77, 65, 73, 78>>
TAG_SIZE == <<83, 73, 90, 69>>
TAG_XYZI == <<88, 89, 90, 73>>
TAG_RGBA == <<82, 71, 66, 65>>

size_chunk_size == INT_SIZE * 3
\* A variant that leaves the count field out of the content size.
xyzi_chunk_size_records_only(voxel_count) == voxel_count * INT_SIZE
xyzi_chunk_size(voxel_count) == INT_SIZE + (voxel_count * INT_SIZE)
rgba_chunk_size == PALETTE_COUNT * INT_SIZE
chunk_header_size == INT_SIZE * 3
chunk_count == 3
main_child_chunks_size(voxel_count) ==
    (chunk_header_size * chunk_count) + size_chunk_size + xyzi_chunk_size(voxel_count)
        + rgba_chunk_size

\* The concatenation of a sequence of 4-byte arrays: the loop that writes
\* each xyzi, and palette.concat().
concat(arrays) ==
    [k \in 1..(4 * Len(arrays)) |-> arrays[((k - 1) \div 4) + 1][((k - 1) % 4) + 1]]

\* A variant that writes the colour of index i at position i.
palette_slot_at_index(i) == i

\* palette[i as usize - 1] = rgba.0: the slot written, 0-based.  With i = 0
\* the subtraction overflows: a panic with overflow checks, and without them
\* a position far past the array, which the bounds check of the array
\* refuses with a panic too.
palette_slot(i) == i - 1

\* for (rgba, i) in color_indices { palette[i as usize - 1] = rgba.0 }, for
\* the entries order[lo + 1 .. hi] in that order.  `palette` is an Option:
\* None once a slot was outside the array.
RECURSIVE palette_fill(_, _, _, _, _)
palette_fill(palette, order, color_indices, lo, hi) ==
    IF hi <= lo \/ palette = None THEN palette
    ELSE IF hi = lo + 1
    THEN LET rgba == order[hi]
             slot == palette_slot(color_indices[rgba])
         IN  IF slot < 0 \/ slot >= PALETTE_COUNT
             THEN None
             ELSE Some([palette[1] EXCEPT ![slot + 1] = rgba])
    ELSE LET mid == (lo + hi) \div 2
             first == palette_fill(palette, order, color_indices, lo, mid)
         IN  IF first = None
             THEN None
             ELSE palette_fill(first, order, color_indices, mid, hi)

\* A HashMap hands out its entries in an order of its own.  Two orders are
\* explored, the insertion order and its reverse: between them every pair of
\* entries is met in both relative orders.
Reverse(seq) == [k \in 1..Len(seq) |-> seq[Len(seq) + 1 - k]]
IterationOrders(keys) == { keys, Reverse(keys) }

\* Everything save writes before the palette array.
bytes_before_palette(b, xyzis) ==
    LET voxel_count == Len(xyzis)
    IN  TAG_VOX \o to_le_bytes(VOX_VERSION)
        \o TAG_MAIN \o ZERO \o to_le_bytes(main_child_chunks_size(voxel_count))
        \o TAG_SIZE \o to_le_bytes(size_chunk_size) \o ZERO
        \o to_le_bytes(b.width) \o to_le_bytes(b.depth) \o to_le_bytes(b.height)
        \o TAG_XYZI \o to_le_bytes(xyzi_chunk_size(voxel_count)) \o ZERO
        \o to_le_bytes(voxel_count) \o concat(xyzis)
        \o TAG_RGBA \o to_le_bytes(rgba_chunk_size) \o ZERO

Locals(acc) ==
    Some([ color_indices |-> acc.color_indices, index |-> acc.index, xyzis |-> acc.xyzis ])

\* The palette arrays the loop over color_indices can leave, one for each
\* iteration order of the HashMap; None stands for a panic in the loop.
palettes(acc) ==
    { palette_fill(Some([k \in 1..PALETTE_COUNT |-> ZERO]), order, acc.color_indices,
                   0, Len(order)) :
         order \in IterationOrders(acc.keys) }

\* save, given the outcome `acc` of the walk.  fs::write either writes the
\* whole file or fails, and an Err is returned to the caller.
SaveWith(acc) ==
    /\ save_locals' = Locals(acc)
    /\ IF acc.panic # "none"
       THEN /\ err' = acc.panic
            /\ UNCHANGED <<result, written>>
       ELSE \E palette \in palettes(acc) :
               IF palette = None
               THEN /\ err' = "palette_index"
                    /\ UNCHANGED <<result, written>>
               ELSE /\ UNCHANGED err
                    /\ \E io_ok \in BOOLEAN :
                          IF io_ok
                          THEN /\ result' = "Ok"
                               /\ written' =
                                     (IF Len(written) < 2 THEN written ELSE Tail(written))
                                     \o << bytes_before_palette(buf, acc.xyzis)
                                           \o concat(palette[1]) >>
                          ELSE /\ result' = "Err"
                               /\ UNCHANGED written
    /\ UNCHANGED <<kind, buf, ret, it, yielded, l_system, turtle, calls, usize_bytes>>

\* The outcomes of the walk in a build with overflow checks and in one
\* without.
SaveVolume ==
    /\ err = "none"
    /\ kind = "VolumeBuffer"
    /\ \E acc \in { walk_enumerate(buf, overflow_checks) :
                      overflow_checks \in BOOLEAN } :
          SaveWith(acc)

SaveArray ==
    /\ err = "none"
    /\ kind = "ArrayVoxelBuffer"
    /\ \E acc \in { walk_loops(buf, overflow_checks) :
                      overflow_checks \in BOOLEAN } :
          SaveWith(acc)

---------------------------------------------------------------------------
(* Specifications. *)

\* Populating a buffer and then saving it, any number of times.
Next ==
    \/ Populate
    \/ SaveVolume
    \/ SaveArray

Spec == Init /\ [][Next]_vars

\* Filling and saving a row wider than the palette.
InitWide == InitWith({"VolumeBuffer", "ArrayVoxelBuffer"}, WideShapes)

NextWide ==
    \/ \E n \in RampLens : FillRamp(n)
    \/ PopulateLast
    \/ SaveVolume
    \/ SaveArray

SpecWide == InitWide /\ [][NextWide]_vars

\* The index arithmetic, on every explored shape of a VolumeBuffer.
InitIndex == InitWith({"VolumeBuffer"}, Shapes)

NextIndex ==
    \/ \E x \in Dims, y \in Dims, z \in Dims : CallId(x, y, z)
    \/ \E i \in 0..(MaxVoxels + 1) : CallCoordinate(i)

SpecIndex == InitIndex /\ [][NextIndex]_vars

\* Populating and then enumerating a VolumeBuffer.
NextEnum ==
    \/ Populate
    \/ EnumerateVoxels
    \/ IterNext

SpecEnum == InitIndex /\ [][NextEnum]_vars

---------------------------------------------------------------------------
(* The voxel stored at linear index i. *)
VoxelAt(b, i) == slice(b.data, indices_unchecked(i))

VoxelCount(b) == b.width * b.depth * b.height

\* C1: for every coordinate (x, y, z) inside the buffer, id gives
\* x + y*width + z*width*depth and coordinate maps that index back to
\* (x, y, z); for every index i below width*depth*height, coordinate gives a
\* coordinate that id maps back to i.
C1_RoundTrip ==
    /\ ret.op = "id" =>
          LET x == ret.args[1]
              y == ret.args[2]
              z == ret.args[3]
          IN  (x < buf.width /\ y < buf.depth /\ z < buf.height) =>
                 /\ ret.val = Some(x + y * buf.width + z * buf.width * buf.depth)
                 /\ coordinate(buf, ret.val[1]) = Some(<<x, y, z>>)
    /\ ret.op = "coordinate" =>
          LET i == ret.args[1]
          IN  i < VoxelCount(buf) =>
                 /\ ret.val # None
                 /\ id(buf, ret.val[1][1], ret.val[1][2], ret.val[1][3]) = Some(i)

C1_Witness ==
    /\ ret.op = "id"
    /\ ret.val # None
    /\ ret.args = <<1, 1, 1>>

\* C2: enumerate_voxels yields exactly width*depth*height items and then
\* ends; the i-th item (from 0) carries coordinate(i) and the voxel stored
\* at linear index i.
C2_Enumerate ==
    it # None =>
       \A k \in 1..Len(yielded) :
          IF k <= VoxelCount(buf)
          THEN /\ coordinate(buf, k - 1) # None
               /\ yielded[k] = Some(coordinate(buf, k - 1)[1] \o <<VoxelAt(buf, k - 1)>>)
          ELSE yielded[k] = None

C2_Witness ==
    /\ it # None
    /\ buf.width >= 2 /\ buf.depth >= 2 /\ buf.height >= 2
    /\ NonZeroVoxels(buf) >= 2
    /\ Len(yielded) > VoxelCount(buf)
---------------------------------------------------------------------------
(* Reading a saved file back, by the byte offsets of the .vox layout. *)

\* The little-endian 32-bit integer at 0-based offset `off` of file f.
le32(f, off) ==
    f[off + 1] + f[off + 2] * U8Mod + f[off + 3] * U8Mod * U8Mod
        + f[off + 4] * U8Mod * U8Mod * U8Mod

TagAt(f, off) == SubSeq(f, off + 1, off + 4)

\* The count the XYZI chunk declares, and its k-th record (k from 1).
FileCount(f) == le32(f, 56)
FileRecord(f, k) == SubSeq(f, 60 + 4 * (k - 1) + 1, 60 + 4 * k)

\* The 0-based offset of the RGBA chunk, and entry e (0-based) of its array.
RgbaOffset(f) == 60 + 4 * FileCount(f)
FilePaletteEntry(f, e) == SubSeq(f, RgbaOffset(f) + 12 + 4 * e + 1, RgbaOffset(f) + 12 + 4 * e + 4)

\* The file of the latest successful save.  No voxel is written once save
\* was called, so it is a file of the buffer as it is.
Saved == written # <<>>
LastFile == written[Len(written)]

\* The linear indices of the voxels with alpha > 0, and the position (from 1)
\* of such a voxel among them in ascending order.
OpaqueIndices(b) == { i \in 0..(VoxelCount(b) - 1) : VoxelAt(b, i)[4] > 0 }
OpaqueRank(b, i) == Cardinality({ j \in OpaqueIndices(b) : j <= i })

\* The distinct values of the voxels with alpha > 0, and the position (from
\* 1) of such a value among them in the order of their first occurrence.
OpaqueColours(b) == { VoxelAt(b, i) : i \in OpaqueIndices(b) }
FirstAt(b, c) == CHOOSE i \in OpaqueIndices(b) :
                    /\ VoxelAt(b, i) = c
                    /\ \A j \in OpaqueIndices(b) : VoxelAt(b, j) = c => i <= j
FirstSeenRank(b, c) ==
    Cardinality({ c2 \in OpaqueColours(b) : FirstAt(b, c2) <= FirstAt(b, c) })

\* The palette entries (0-based) of file f that are not four zero bytes.
NonZeroEntries(f) == { e \in 0..(PALETTE_COUNT - 1) : FilePaletteEntry(f, e) # ZERO }

---------------------------------------------------------------------------
\* C3: the file of a buffer with exactly one voxel of alpha > 0, every other
\* voxel zero, has XYZI count 1, the record's paletteIndex 1, and exactly one
\* non-zero palette entry, the one of palette index 1.
C3_OneOpaqueSlotOne ==
    (Saved /\ Cardinality(OpaqueIndices(buf)) = 1 /\ NonZeroVoxels(buf) = 1) =>
        /\ FileCount(LastFile) = 1
        /\ FileRecord(LastFile, 1)[4] = 1
        /\ NonZeroEntries(LastFile) = {0}

\* C4: save gives palette slots to the values of voxels with alpha > 0 only,
\* the k-th distinct such value in ascending linear-index order getting
\* slot k.
C4_SlotsOnlyForOpaque ==
    (save_locals # None /\ err = "none") =>
        LET color_indices == save_locals[1].color_indices
        IN  /\ DOMAIN color_indices = OpaqueColours(buf)
            /\ \A c \in DOMAIN color_indices : color_indices[c] = FirstSeenRank(buf, c)

\* C5: the file of a buffer whose voxels all have alpha = 0 has XYZI count 0
\* and a palette array of zero bytes only.
C5_AllTransparentZeroPalette ==
    (Saved /\ OpaqueIndices(buf) = {}) =>
        /\ FileCount(LastFile) = 0
        /\ Len(LastFile) = RgbaOffset(LastFile) + 12 + PALETTE_COUNT * 4
        /\ NonZeroEntries(LastFile) = {}

\* C6: the XYZI count is the number of voxels with alpha > 0, and the
\* records are those voxels in ascending linear-index order, the x, y, z
\* bytes of a record being the coordinate of its voxel.
C6_RecordsAreOpaqueVoxels ==
    Saved =>
        /\ FileCount(LastFile) = Cardinality(OpaqueIndices(buf))
        /\ \A i \in OpaqueIndices(buf) :
              SubSeq(FileRecord(LastFile, OpaqueRank(buf, i)), 1, 3)
                 = coordinate_unchecked(buf, i)

\* C7: in a saved file, entry p - 1 of the palette array holds the RGBA
\* bytes of the voxel of each record with paletteIndex p, and every entry
\* that no colour was assigned to is four zero bytes.
C7_PaletteHoldsRecordColours ==
    Saved =>
        /\ FileCount(LastFile) = Cardinality(OpaqueIndices(buf))
        /\ \A i \in OpaqueIndices(buf) :
              LET p == FileRecord(LastFile, OpaqueRank(buf, i))[4]
              IN  /\ p >= 1
                  /\ FilePaletteEntry(LastFile, p - 1) = VoxelAt(buf, i)
        /\ \A e \in 0..(PALETTE_COUNT - 1) :
              (\A c \in DOMAIN save_locals[1].color_indices :
                    save_locals[1].color_indices[c] # e + 1)
                 => FilePaletteEntry(LastFile, e) = ZERO

C7_Witness ==
    /\ Saved
    /\ Cardinality(OpaqueColours(buf)) = 2
    /\ Cardinality(NonZeroEntries(LastFile)) = 2

\* C8: every palette index save assigns to a colour or writes in a record
\* is in 1..255, whatever the buffer holds.
C8_IndicesInRange ==
    save_locals # None =>
        /\ \A c \in DOMAIN save_locals[1].color_indices :
              save_locals[1].color_indices[c] \in 1..(PALETTE_COUNT - 1)
        /\ \A k \in 1..Len(save_locals[1].xyzis) :
              save_locals[1].xyzis[k][4] \in 1..(PALETTE_COUNT - 1)

C10_Deterministic ==
    Len(written) = 2 => written[1] = written[2]

C10_Witness ==
    /\ Len(written) = 2
    /\ Cardinality(DOMAIN save_locals[1].color_indices) >= 3
---------------------------------------------------------------------------
(* l_system.rs: the grammar of an L-system and its derivation.             *)
(* A text (&str) is the sequence of its characters, each a one-character   *)
(* string; the arrow of a rule is the character ARROW.                     *)

MaxRules == 2
MaxDerive == 2

ARROW == "->"

\* alt((value(Command::Draw, tag("F")), ...)): the command of a character,
\* None for a character no tag matches.
alt(ch) ==
    CASE ch = "F" -> Some("Draw")
      [] ch = "f" -> Some("Step")
      [] ch = "+" -> Some("Left")
      [] ch = "-" -> Some("Right")
      [] ch = "L" -> Some("DrawLeft")
      [] ch = "R" -> Some("DrawRight")
      [] ch = "A" -> Some("SubfigureA")
      [] ch = "B" -> Some("SubfigureB")
      [] OTHER    -> None

\* many0(alt(..))(sentence): the commands of the longest prefix whose
\* characters all match, and the rest of the input.  many0 ends at the first
\* character that does not match and is Ok whatever the rest is.
parse_sentence(sentence) ==
    LET k == CHOOSE k \in 0..Len(sentence) :
                /\ \A j \in 1..k : alt(sentence[j]) # None
                /\ k = Len(sentence) \/ alt(sentence[k + 1]) = None
    IN  [ rest |-> SubSeq(sentence, k + 1, Len(sentence)),
          out  |-> [j \in 1..k |-> alt(sentence[j])[1]] ]

\* tag("->")(input): the rest after the arrow, None (Err) without one.
tag_arrow(input) ==
    IF Len(input) >= 1 /\ input[1] = ARROW
    THEN Some(SubSeq(input, 2, Len(input)))
    ELSE None

\* separated_pair(parse_sentence, tag("->"), parse_sentence)(rule): the two
\* sides and the rest, None (Err) when the arrow does not follow the left
\* side.
separated_pair(rule) ==
    LET left  == parse_sentence(rule)
        after == tag_arrow(left.rest)
    IN  IF after = None
        THEN None
        ELSE LET right == parse_sentence(after[1])
             IN  Some([rest |-> right.rest, left |-> left.out, right |-> right.out])

\* A variant of insert that keeps the value a key already has.
insert_if_absent(output, key, value) ==
    [c \in DOMAIN output \cup {key} |-> IF c \in DOMAIN output THEN output[c] ELSE value]

\* output.insert(key, value) of a HashMap: a later value replaces an earlier.
insert(output, key, value) ==
    [c \in DOMAIN output \cup {key} |-> IF c = key THEN value ELSE output[c]]

\* parse_productions(rules): [status, output].  `?` returns the Err of a
\* rule, and pair.1.0[0] panics on an empty left side.
RECURSIVE parse_productions_from(_, _, _)
parse_productions_from(rules, k, output) ==
    IF k > Len(rules)
    THEN [status |-> "Ok", output |-> output]
    ELSE LET pair == separated_pair(rules[k])
         IN  IF pair = None
             THEN [status |-> "Err", output |-> output]
             ELSE IF pair[1].left = <<>>
             THEN [status |-> "index_out_of_bounds", output |-> output]
             ELSE parse_productions_from(rules, k + 1,
                                         insert(output, pair[1].left[1], pair[1].right))

parse_productions(rules) == parse_productions_from(rules, 1, <<>>)

\* LSystem::new: [status, value].  parse_sentence(axiom).unwrap().1 drops
\* the rest of the input; unwrap panics on the Err of parse_productions.
LSystem_new(axiom, productions) ==
    LET parsed == parse_productions(productions)
    IN  IF parsed.status = "Ok"
        THEN [ status |-> "Ok",
               value  |-> Some([ axiom       |-> parse_sentence(axiom).out,
                                 productions |-> parsed.output ]) ]
        ELSE [ status |-> IF parsed.status = "Err" THEN "unwrap_err" ELSE parsed.status,
               value  |-> None ]

\* A variant of the loop that drops the symbols without a production.
RECURSIVE derivation_of_rules_only(_, _, _, _)
derivation_of_rules_only(productions, sentence, lo, hi) ==
    IF hi <= lo THEN <<>>
    ELSE IF hi = lo + 1
    THEN LET c == sentence[hi]
         IN  IF c \in DOMAIN productions THEN productions[c] ELSE <<>>
    ELSE LET mid   == (lo + hi) \div 2
             first == derivation_of_rules_only(productions, sentence, lo, mid)
         IN  IF Len(first) >= 0
             THEN first \o derivation_of_rules_only(productions, sentence, mid, hi)
             ELSE <<>>

\* The loop of derive over sentence[lo + 1 .. hi]: the derivation it builds.
\* The range is split in two halves, the first appended before the second.
RECURSIVE derivation_of(_, _, _, _)
derivation_of(productions, sentence, lo, hi) ==
    IF hi <= lo THEN <<>>
    ELSE IF hi = lo + 1
    THEN LET c == sentence[hi]
         IN  IF c \in DOMAIN productions THEN productions[c] ELSE <<c>>
    ELSE LET mid   == (lo + hi) \div 2
             first == derivation_of(productions, sentence, lo, mid)
         IN  IF Len(first) >= 0
             THEN first \o derivation_of(productions, sentence, mid, hi)
             ELSE <<>>

\* A variant of derive that stops one pass early.
RECURSIVE derive_until_one(_, _, _)
derive_until_one(productions, sentence, n) ==
    IF n <= 1
    THEN sentence
    ELSE LET derivation == derivation_of(productions, sentence, 0, Len(sentence))
         IN  IF Len(derivation) >= 0
             THEN derive_until_one(productions, derivation, n - 1)
             ELSE <<>>

\* LSystem::derive.
RECURSIVE derive(_, _, _)
derive(productions, sentence, n) ==
    IF n = 0
    THEN sentence
    ELSE LET derivation == derivation_of(productions, sentence, 0, Len(sentence))
         IN  IF Len(derivation) >= 0
             THEN derive(productions, derivation, n - 1)
             ELSE <<>>

\* A variant of commands that derives once at most.
commands_once(l, n) == derive(l.productions, l.axiom, IF n = 0 THEN 0 ELSE 1)

\* LSystem::commands.
commands(l, n) == derive(l.productions, l.axiom, n)

\* The texts grammars are built from.
KochAxiom == <<"F", "-", "F", "-", "F", "-", "F">>
KochRule == <<"F", ARROW, "F", "-", "F", "+", "F", "+", "F", "F", "-", "F", "-", "F", "+", "F">>

AxiomTexts ==
    { <<>>, <<"F">>, <<"L">>, <<"A", "f">>, KochAxiom,
      <<"F", "x", "F">>, <<"x">>, <<"F", ARROW, "F">> }

RuleTexts ==
    { KochRule,
      <<"L", ARROW, "L", "+", "R", "+">>,
      <<"R", ARROW, "-", "L", "-", "R">>,
      <<"A", ARROW, "+", "B", "F">>,
      <<"F", ARROW>>,
      <<"F", ARROW, "f", "x", "F">>,
      <<"F", "x", ARROW, "F">>,
      <<"x", ARROW, "F">>,
      <<ARROW, "F">>,
      <<"F", "L", ARROW, "-">>,
      <<"F">> }

RuleLists == UNION { [1..k -> RuleTexts] : k \in 0..MaxRules }

NewLSystem ==
    /\ err = "none"
    /\ l_system = None
    /\ ret = NoCall
    /\ \E axiom \in AxiomTexts, productions \in RuleLists :
          LET r == LSystem_new(axiom, productions)
          IN  /\ ret' = [op |-> "new", args |-> <<axiom, productions>>, val |-> r.value]
              /\ l_system' = r.value
              /\ err' = IF r.status = "Ok" THEN "none" ELSE r.status
    /\ UNCHANGED <<kind, buf, it, yielded, save_locals, result, written, turtle, calls, usize_bytes>>

Commands ==
    /\ err = "none"
    /\ l_system # None
    /\ \E n \in 0..MaxDerive :
          ret' = [op |-> "commands", args |-> <<n>>, val |-> Some(commands(l_system[1], n))]
    /\ UNCHANGED <<kind, buf, err, it, yielded, save_locals, result, written, l_system, turtle, calls, usize_bytes>>

InitLSystem == InitWith({"ArrayVoxelBuffer"}, {<<0, 0, 0>>})

NextLSystem == NewLSystem \/ Commands

SpecLSystem == InitLSystem /\ [][NextLSystem]_vars

---------------------------------------------------------------------------
\* The characters of a text that no reserved character matches; in a rule
\* the arrow is allowed too.
ForeignInAxiom(text) == { j \in 1..Len(text) : alt(text[j]) = None }
ForeignInRule(text) == { j \in 1..Len(text) : alt(text[j]) = None /\ text[j] # ARROW }

\* C11: LSystem::new on an axiom or a rule with a character outside the
\* reserved set (and, in a rule, the arrow) fails: no grammar is returned.
C11_ForeignCharacterFails ==
    (/\ ret.op = "new"
     /\ \/ ForeignInAxiom(ret.args[1]) # {}
        \/ \E k \in 1..Len(ret.args[2]) : ForeignInRule(ret.args[2][k]) # {})
        => (l_system = None /\ err # "none")

\* One rewriting pass, told by positions: the symbol at position j of the
\* sentence becomes the slice Start[j] + 1 .. Start[j + 1] of the result,
\* its production's right side or the symbol itself.
Rewritten(productions, c) == IF c \in DOMAIN productions THEN productions[c] ELSE <<c>>
\* The lengths of the results of the symbols lo + 1 .. hi, summed up to
\* each of them.
RECURSIVE RunningLength(_, _, _, _)
RunningLength(productions, sentence, lo, hi) ==
    IF hi = lo + 1
    THEN <<Len(Rewritten(productions, sentence[hi]))>>
    ELSE LET mid   == (lo + hi) \div 2
             first == RunningLength(productions, sentence, lo, mid)
             base  == first[Len(first)]
             rest  == RunningLength(productions, sentence, mid, hi)
         IN  IF base >= 0
             THEN first \o [k \in 1..Len(rest) |-> base + rest[k]]
             ELSE <<>>
IsPassOf(productions, sentence, out) ==
    LET End   == IF sentence = <<>> THEN <<>>
                 ELSE RunningLength(productions, sentence, 0, Len(sentence))
        Start == <<0>> \o End
    IN  /\ Len(out) = Start[Len(sentence) + 1]
        /\ \A j \in 1..Len(sentence) :
              SubSeq(out, Start[j] + 1, Start[j + 1]) = Rewritten(productions, sentence[j])

\* C12: derive(sentence, 0) is the sentence, and derive(sentence, n) is the
\* result of n passes, each replacing every symbol, in order, by its
\* production's right side, or by itself if it has none.
C12_DeriveIsNPasses ==
    ret.op = "commands" =>
        LET l == l_system[1]
            n == ret.args[1]
            stage(k) == derive(l.productions, l.axiom, k)
        IN  /\ stage(0) = l.axiom
            /\ ret.val = Some(stage(n))
            /\ \A k \in 1..n : IsPassOf(l.productions, stage(k - 1), stage(k))

C12_Witness ==
    /\ ret.op = "commands"
    /\ ret.args = <<2>>
    /\ l_system[1].axiom = <<"SubfigureA", "Step">>
    /\ DOMAIN l_system[1].productions = {"SubfigureA", "Draw"}
    /\ ret.val = Some(<<"Left", "SubfigureB", "Step">>)

\* The sequence commands(n) returned is derive(derive(axiom, a), n - a) for
\* every split of n.
C13_Inv ==
    ret.op = "commands" =>
        LET l == l_system[1]
            n == ret.args[1]
        IN  \A a \in 0..n :
               ret.val = Some(derive(l.productions, derive(l.productions, l.axiom, a), n - a))

\* C13: derive(seq, a + b) = derive(derive(seq, a), b) for all a, b, and a
\* call of commands leaves the grammar as it is.
C13_Composable ==
    /\ []C13_Inv
    /\ [][ret'.op = "commands" => l_system' = l_system]_vars

C13_Witness ==
    /\ ret.op = "commands"
    /\ ret.args = <<2>>
    /\ l_system[1].axiom = <<"DrawLeft">>
    /\ DOMAIN l_system[1].productions = {"DrawLeft", "DrawRight"}
    /\ Len(ret.val[1]) > 4

\* The Koch grammar of the doc test, and one derivation step of it.
KochRight ==
    <<"Draw", "Right", "Draw", "Left", "Draw", "Left", "Draw", "Draw",
      "Right", "Draw", "Right", "Draw", "Left", "Draw">>
KochStep ==
    /\ ret.op = "commands"
    /\ ret.args = <<1>>
    /\ l_system[1].axiom = <<"Draw", "Right", "Draw", "Right", "Draw", "Right", "Draw">>
    /\ l_system[1].productions = [c \in {"Draw"} |-> KochRight]
KochExpansion ==
    KochRight \o <<"Right">> \o KochRight \o <<"Right">> \o KochRight \o <<"Right">> \o KochRight

\* C14 as stated: one step of the Koch grammar gives the expansion that
\* substitutes each F, and it has 17 symbols.
C14_KochSeventeen ==
    KochStep => (ret.val = Some(KochExpansion) /\ Len(ret.val[1]) = 17)

\* C14: one step of the Koch grammar (axiom F-F-F-F, rule F -> F-F+F+FF-F-F+F)
\* gives the expansion that replaces each of the four F by the 14 symbols of
\* the right side and keeps each of the three '-': 59 symbols.
C14_KochFiftyNine ==
    KochStep => (ret.val = Some(KochExpansion) /\ Len(ret.val[1]) = 4 * 14 + 3)

C14_Witness == KochStep /\ Len(ret.val[1]) = 59

---------------------------------------------------------------------------
(* turtle.rs and turtle_graphics.rs: TurtleGraphics.                       *)
(* A heading is kept as its number of eighth turns (FRAC_PI_4), the angles *)
(* passed to left and right being whole numbers of them.  For these        *)
(* headings f32 cos and sin are 1, -1, about 0.70710677, or at most 1e-7   *)
(* away from 0, and a step size is a small whole number: the product cast  *)
(* to i32 is the product with the table below, truncated toward zero.      *)

MaxCalls == 3

TRIG_SCALE == 1000000
DIAGONAL == 707107

\* heading.cos() and heading.sin(), in units of 1 / TRIG_SCALE.
cos(heading) ==
    CASE heading % 8 = 0 -> TRIG_SCALE
      [] heading % 8 \in {1, 7} -> DIAGONAL
      [] heading % 8 \in {2, 6} -> 0
      [] heading % 8 \in {3, 5} -> 0 - DIAGONAL
      [] heading % 8 = 4 -> 0 - TRIG_SCALE
sin(heading) == cos(heading - 2)

\* A variant of the cast that rounds toward minus infinity.
as_i32_floor(step_size, c) ==
    LET product == step_size * c
    IN  IF product >= 0 \/ product % TRIG_SCALE = 0
        THEN product \div TRIG_SCALE
        ELSE 0 - ((0 - product) \div TRIG_SCALE) - 1

\* (step_size * c) as i32, c in units of 1 / TRIG_SCALE: the cast drops the
\* fraction, toward zero.
as_i32(step_size, c) ==
    LET product == step_size * c
    IN  IF product >= 0
        THEN product \div TRIG_SCALE
        ELSE 0 - ((0 - product) \div TRIG_SCALE)

\* x as u32 on an i32: a negative x becomes 2^32 + x, which is above every
\* dimension explored here; U32_HIGH stands for such a value.
U32_HIGH == 2 ^ 30
\* A variant of the cast that takes a negative x to its magnitude.
as_u32_magnitude(v) == IF v >= 0 THEN v ELSE 0 - v
as_u32(v) == IF v >= 0 THEN v ELSE U32_HIGH

\* The drawing colour of turtle.rs, and the initial one of
\* turtle_graphics.rs.
DRAW_COLOR == <<0, 0, 0, 255>>

\* TurtleGraphics::new: the Turtle.  The Turtle of turtle.rs has no color
\* field (None here), the one of turtle_graphics.rs has.
Turtle_new(module) ==
    [ x |-> 0, y |-> 0, heading |-> 0,
      color |-> IF module = "turtle_graphics" THEN Some(DRAW_COLOR) ELSE None ]

\* TurtleGraphics::step.
step(t, step_size) ==
    [t EXCEPT !.x = t.x + as_i32(step_size, cos(t.heading)),
              !.y = t.y + as_i32(step_size, sin(t.heading))]

\* A variant of left that turns the other way.
left_clockwise(t, angle_increment) == [t EXCEPT !.heading = @ - angle_increment]

\* TurtleGraphics::left and TurtleGraphics::right.
left(t, angle_increment) == [t EXCEPT !.heading = @ + angle_increment]
right(t, angle_increment) == [t EXCEPT !.heading = @ - angle_increment]

\* line_drawing::Octant::new(start, end), and its maps to and from the
\* first octant.
Octant_new(start, end) ==
    LET dx0 == end[1] - start[1]
        dy0 == end[2] - start[2]
        flip == dy0 < 0
        dx1 == IF flip THEN 0 - dx0 ELSE dx0
        dy1 == IF flip THEN 0 - dy0 ELSE dy0
        turn == dx1 < 0
        dx2 == IF turn THEN dy1 ELSE dx1
        dy2 == IF turn THEN 0 - dx1 ELSE dy1
    IN  (IF flip THEN 4 ELSE 0) + (IF turn THEN 2 ELSE 0) + (IF dx2 < dy2 THEN 1 ELSE 0)

Octant_to(octant, p) ==
    CASE octant = 0 -> <<p[1], p[2]>>
      [] octant = 1 -> <<p[2], p[1]>>
      [] octant = 2 -> <<p[2], 0 - p[1]>>
      [] octant = 3 -> <<0 - p[1], p[2]>>
      [] octant = 4 -> <<0 - p[1], 0 - p[2]>>
      [] octant = 5 -> <<0 - p[2], 0 - p[1]>>
      [] octant = 6 -> <<0 - p[2], p[1]>>
      [] octant = 7 -> <<p[1], 0 - p[2]>>

Octant_from(octant, p) ==
    CASE octant = 0 -> <<p[1], p[2]>>
      [] octant = 1 -> <<p[2], p[1]>>
      [] octant = 2 -> <<0 - p[2], p[1]>>
      [] octant = 3 -> <<0 - p[1], p[2]>>
      [] octant = 4 -> <<0 - p[1], 0 - p[2]>>
      [] octant = 5 -> <<0 - p[2], 0 - p[1]>>
      [] octant = 6 -> <<p[2], 0 - p[1]>>
      [] octant = 7 -> <<p[1], 0 - p[2]>>

\* Bresenham::new(start, end) and the points its iterator yields, in order.
RECURSIVE Bresenham_points(_, _, _, _, _, _)
Bresenham_points(octant, point, end_x, delta_x, delta_y, error) ==
    IF point[1] <= end_x
    THEN LET up == error >= 0
         IN  <<Octant_from(octant, point)>>
                \o Bresenham_points(octant,
                                    <<point[1] + 1, IF up THEN point[2] + 1 ELSE point[2]>>,
                                    end_x, delta_x, delta_y,
                                    (IF up THEN error - delta_x ELSE error) + delta_y)
    ELSE <<>>

\* A variant of Bresenham that stops before the end point.
Bresenham_open(start, end) ==
    LET octant  == Octant_new(start, end)
        s       == Octant_to(octant, start)
        e       == Octant_to(octant, end)
        delta_x == e[1] - s[1]
        delta_y == e[2] - s[2]
    IN  Bresenham_points(octant, s, e[1] - 1, delta_x, delta_y, delta_y - delta_x)

Bresenham(start, end) ==
    LET octant  == Octant_new(start, end)
        s       == Octant_to(octant, start)
        e       == Octant_to(octant, end)
        delta_x == e[1] - s[1]
        delta_y == e[2] - s[2]
    IN  Bresenham_points(octant, s, e[1], delta_x, delta_y, delta_y - delta_x)

\* The loop of draw, draw_color and draw_gradient over points[k ..]:
\* [buf, panic].  colors is an Option: Some(gradient) for draw_gradient,
\* whose gradient[i] panics past the end of the slice before the voxel is
\* looked up, None for a fixed color.
RECURSIVE plot(_, _, _, _, _)
plot(b, points, k, color, colors) ==
    IF k > Len(points)
    THEN [buf |-> b, panic |-> "none"]
    ELSE IF colors # None /\ k > Len(colors[1])
    THEN [buf |-> b, panic |-> "index_out_of_bounds"]
    ELSE LET range == voxel_indices(b, as_u32(points[k][1]), as_u32(points[k][2]), 0)
             rgba  == IF colors # None THEN colors[1][k] ELSE color
         IN  IF range = None
             THEN [buf |-> b, panic |-> "out_of_bounds"]
             ELSE plot([b EXCEPT !.data = store(@, range[1], rgba)],
                       points, k + 1, color, colors)

\* draw / draw_color / draw_gradient: [turtle, buf, panic].
draw_with(t, b, step_size, color, colors) ==
    LET moved == step(t, step_size)
        drawn == plot(b, Bresenham(<<t.x, t.y>>, <<moved.x, moved.y>>), 1, color, colors)
    IN  [turtle |-> moved, buf |-> drawn.buf, panic |-> drawn.panic]

draw(t, b, step_size) ==
    draw_with(t, b, step_size, IF t.color = None THEN DRAW_COLOR ELSE t.color[1], None)
draw_color(t, b, step_size, color) == draw_with(t, b, step_size, color, None)
\* A variant of draw_gradient that draws the whole line in gradient[0].
draw_gradient_first(t, b, step_size, gradient) ==
    draw_with(t, b, step_size, IF gradient = <<>> THEN ZERO_RGBA ELSE gradient[1], None)
draw_gradient(t, b, step_size, gradient) == draw_with(t, b, step_size, ZERO_RGBA, Some(gradient))

\* The arguments of the calls explored.
StepSizes == {0 - 1, 1, 2, 3}
Angles == {1, 2}
RED == <<255, 0, 0, 255>>
Gradient4 == <<RED, <<255, 255, 0, 255>>, <<0, 255, 0, 255>>, <<0, 0, 255, 255>>>>
Gradients == { SubSeq(Gradient4, 1, k) : k \in 0..4 }
TurtleShapes == { <<3, 3, 3>>, <<2, 3, 2>> }

Called(op, args) ==
    /\ err = "none"
    /\ turtle # None
    /\ Len(calls) < MaxCalls
    /\ calls' = Append(calls, [op |-> op, args |-> args])
    /\ UNCHANGED <<kind, ret, it, yielded, save_locals, result, written, l_system, usize_bytes>>

Moved(op, args, t) ==
    /\ Called(op, args)
    /\ turtle' = Some(t)
    /\ UNCHANGED <<buf, err>>

Drew(op, args, r) ==
    /\ Called(op, args)
    /\ turtle' = Some(r.turtle)
    /\ buf' = r.buf
    /\ err' = r.panic

Step == \E d \in StepSizes : Moved("step", <<d>>, step(turtle[1], d))
Left == \E a \in Angles : Moved("left", <<a>>, left(turtle[1], a))
Right == \E a \in Angles : Moved("right", <<a>>, right(turtle[1], a))
Draw == \E d \in StepSizes : Drew("draw", <<d>>, draw(turtle[1], buf, d))

DrawColor ==
    /\ turtle # None /\ turtle[1].color = None
    /\ \E d \in {1, 2} : Drew("draw_color", <<d, RED>>, draw_color(turtle[1], buf, d, RED))

DrawGradient ==
    /\ turtle # None /\ turtle[1].color = None
    /\ \E d \in {1, 2}, g \in Gradients :
          Drew("draw_gradient", <<d, g>>, draw_gradient(turtle[1], buf, d, g))

\* TurtleGraphics::color of turtle_graphics.rs.
Color ==
    /\ turtle # None /\ turtle[1].color # None
    /\ Moved("color", <<RED>>, [turtle[1] EXCEPT !.color = Some(RED)])

InitTurtle ==
    /\ kind = "ArrayVoxelBuffer"
    /\ \E s \in TurtleShapes : buf = new(s[1], s[2], s[3])
    /\ turtle \in { Some(Turtle_new(module)) : module \in {"turtle", "turtle_graphics"} }
    /\ err = "none"
    /\ ret = NoCall
    /\ it = None
    /\ yielded = <<>>
    /\ save_locals = None
    /\ result = "none"
    /\ written = <<>>
    /\ l_system = None
    /\ calls = <<>>
    /\ usize_bytes = USIZE_BYTES_64

NextTurtle == Step \/ Left \/ Right \/ Draw \/ DrawColor \/ DrawGradient \/ Color

SpecTurtle == InitTurtle /\ [][NextTurtle]_vars

---------------------------------------------------------------------------
\* The coordinates of buffer b, and those of its voxels that are not zero.
Coordinates(b) == (0..(b.width - 1)) \X (0..(b.depth - 1)) \X (0..(b.height - 1))
Marked(b) == { c \in Coordinates(b) : voxel(b, c[1], c[2], c[3]) # ZERO_RGBA }

\* The doc test: new(3, 3, 3), step(1.0), left(FRAC_PI_2), draw(2.0).
MidYLine ==
    /\ <<buf.width, buf.depth, buf.height>> = <<3, 3, 3>>
    /\ calls = << [op |-> "step", args |-> <<1>>],
                  [op |-> "left", args |-> <<2>>],
                  [op |-> "draw", args |-> <<2>>] >>

\* C15 as stated: after step(1), left(pi/2), draw(2) on a 3x3x3 buffer the
\* voxels (0,1,0) and (0,2,0), and no other, hold the draw colour.
C15_MarksColumnZero ==
    MidYLine =>
        /\ Marked(buf) = { <<0, 1, 0>>, <<0, 2, 0>> }
        /\ \A c \in Marked(buf) : voxel(buf, c[1], c[2], c[3]) = DRAW_COLOR

\* C15: after step(1), left(pi/2), draw(2) on a 3x3x3 buffer the voxels
\* (1,0,0), (1,1,0) and (1,2,0), and no other, hold the draw colour
\* [0,0,0,255]: the step moved the turtle to x = 1 and the line starts there.
C15_MarksColumnOne ==
    MidYLine =>
        /\ err = "none"
        /\ Marked(buf) = { <<1, 0, 0>>, <<1, 1, 0>>, <<1, 2, 0>> }
        /\ \A c \in Marked(buf) : voxel(buf, c[1], c[2], c[3]) = <<0, 0, 0, 255>>

C15_Witness == MidYLine /\ turtle[1].x = 1 /\ turtle[1].y = 2

\* The last call is a drawing one, just made.
DrawOps == {"draw", "draw_color", "draw_gradient"}
JustCalled(ops) == calls' # calls /\ calls'[Len(calls')].op \in ops

\* The integer points of the straight line from a to b, both included.
OnLine(a, b, x, y) ==
    /\ (IF a[1] <= b[1] THEN a[1] <= x /\ x <= b[1] ELSE b[1] <= x /\ x <= a[1])
    /\ (IF a[2] <= b[2] THEN a[2] <= y /\ y <= b[2] ELSE b[2] <= y /\ y <= a[2])
    /\ (x - a[1]) * (b[2] - a[2]) = (y - a[2]) * (b[1] - a[1])
Between(u, v) == IF u <= v THEN u..v ELSE v..u
LinePoints(a, b) ==
    { q \in Between(a[1], b[1]) \X Between(a[2], b[2]) : OnLine(a, b, q[1], q[2]) }

\* The colours a drawing call may write.
ColoursOf(call, t) ==
    CASE call.op = "draw" -> { IF t.color = None THEN <<0, 0, 0, 255>> ELSE t.color[1] }
      [] call.op = "draw_color" -> { call.args[2] }
      [] call.op = "draw_gradient" -> { call.args[2][k] : k \in 1..Len(call.args[2]) }

\* Every voxel above the plane z = 0 is zero.
C16_Plane ==
    turtle # None =>
        \A c \in Coordinates(buf) : c[3] >= 1 => voxel(buf, c[1], c[2], c[3]) = ZERO_RGBA

\* A drawing call that returns wrote one of its colours at z = 0 to every
\* integer point of the line from the position before to the position
\* after; returning or not, it left every other voxel as it was.  Any other
\* call leaves the buffer as it was.
C16_Line ==
    IF JustCalled(DrawOps)
    THEN LET a == <<turtle[1].x, turtle[1].y>>
             b == <<turtle'[1].x, turtle'[1].y>>
             call == calls'[Len(calls')]
         IN  /\ err' = "none" =>
                   \A q \in LinePoints(a, b) :
                      /\ <<q[1], q[2], 0>> \in Coordinates(buf')
                      /\ \E rgba \in ColoursOf(call, turtle[1]) :
                            voxel(buf', q[1], q[2], 0) = rgba
             /\ \A c \in Coordinates(buf') :
                   (c[3] # 0 \/ <<c[1], c[2]>> \notin LinePoints(a, b))
                      => voxel(buf', c[1], c[2], c[3]) = voxel(buf, c[1], c[2], c[3])
             /\ Coordinates(buf') = Coordinates(buf)
    ELSE (turtle # None /\ calls' # calls) => buf' = buf

Sign(v) == IF v > 0 THEN 1 ELSE IF v < 0 THEN 0 - 1 ELSE 0
Abs(v) == IF v >= 0 THEN v ELSE 0 - v
PointCount(a, b) ==
    1 + (IF Abs(b[1] - a[1]) >= Abs(b[2] - a[2]) THEN Abs(b[1] - a[1]) ELSE Abs(b[2] - a[2]))
PointAt(a, b, i) == <<a[1] + i * Sign(b[1] - a[1]), a[2] + i * Sign(b[2] - a[2])>>

C17_Act ==
    JustCalled({"draw_gradient"}) =>
        LET a == <<turtle[1].x, turtle[1].y>>
            b == <<turtle'[1].x, turtle'[1].y>>
            colors == calls'[Len(calls')].args[2]
            n == PointCount(a, b)
            inside == \A i \in 0..(n - 1) :
                         <<PointAt(a, b, i)[1], PointAt(a, b, i)[2], 0>> \in Coordinates(buf)
        IN  /\ Len(colors) < n => err' # "none"
            /\ (Len(colors) >= n /\ inside) =>
                  /\ err' = "none"
                  /\ \A i \in 0..(n - 1) :
                        voxel(buf', PointAt(a, b, i)[1], PointAt(a, b, i)[2], 0)
                           = colors[i + 1]

\* C17: draw_gradient(distance, colors) writes colors[i] to the i-th point
\* of the line, in the order from the old position to the new one, fails
\* when colors has fewer elements than the line has points, and ignores the
\* colours past the number of points.
C17_GradientInOrder == [][C17_Act]_vars

C17_Witness ==
    /\ calls # <<>>
    /\ calls[Len(calls)] = [op |-> "draw_gradient", args |-> <<2, Gradient4>>]
    /\ err = "none"
    /\ Cardinality(Marked(buf)) = 3

---------------------------------------------------------------------------
(* Buffers of any dimensions a u32 can hold.  A u32 or usize value is kept *)
(* as the sequence of its base-256 digits, least significant first and     *)
(* without leading zeros (0 is the empty sequence), so that products past  *)
(* 2^32 and 2^64 are what they are in the machine.                         *)

\* The digits of a small number, and the small number of a few digits.
RECURSIVE Digits(_)
Digits(n) == IF n = 0 THEN <<>> ELSE <<n % U8Mod>> \o Digits(n \div U8Mod)

digit(a, k) == IF k <= Len(a) THEN a[k] ELSE 0

normal(a) ==
    LET top == CHOOSE k \in 0..Len(a) :
                  /\ k = 0 \/ a[k] # 0
                  /\ \A j \in (k + 1)..Len(a) : a[j] = 0
    IN  SubSeq(a, 1, top)

RECURSIVE add_from(_, _, _, _)
add_from(a, b, k, carry) ==
    IF k > Len(a) /\ k > Len(b)
    THEN IF carry = 0 THEN <<>> ELSE <<carry>>
    ELSE LET t == digit(a, k) + digit(b, k) + carry
         IN  <<t % U8Mod>> \o add_from(a, b, k + 1, t \div U8Mod)

\* a + b, a * b, a - b (for b <= a) and a < b, without a limit of width.
add(a, b) == normal(add_from(a, b, 1, 0))

RECURSIVE scale_from(_, _, _, _)
scale_from(a, d, k, carry) ==
    IF k > Len(a)
    THEN IF carry = 0 THEN <<>> ELSE <<carry>>
    ELSE LET t == a[k] * d + carry
         IN  <<t % U8Mod>> \o scale_from(a, d, k + 1, t \div U8Mod)

scale(a, d) == normal(scale_from(a, d, 1, 0))

RECURSIVE mul(_, _)
mul(a, b) ==
    IF b = <<>> THEN <<>>
    ELSE add(scale(a, b[1]), <<0>> \o mul(a, Tail(b)))

RECURSIVE sub_from(_, _, _, _)
sub_from(a, b, k, borrow) ==
    IF k > Len(a)
    THEN <<>>
    ELSE LET t == a[k] - digit(b, k) - borrow
         IN  <<t % U8Mod>> \o sub_from(a, b, k + 1, IF t < 0 THEN 1 ELSE 0)

sub(a, b) == normal(sub_from(a, b, 1, 0))

less(a, b) ==
    IF Len(a) # Len(b)
    THEN Len(a) < Len(b)
    ELSE \E k \in 1..Len(a) : a[k] < b[k] /\ \A j \in (k + 1)..Len(a) : a[j] = b[j]

\* a / b and a % b for b > 0: long division, from the top digit of a down.
RECURSIVE divmod_from(_, _, _)
divmod_from(a, b, k) ==
    IF k > Len(a)
    THEN [q |-> <<>>, r |-> <<>>]
    ELSE LET upper == divmod_from(a, b, k + 1)
             r     == normal(<<a[k]>> \o upper.r)
             d     == CHOOSE d \in 0..(U8Mod - 1) :
                         /\ ~less(r, scale(b, d))
                         /\ less(r, scale(b, d + 1))
         IN  [q |-> normal(<<d>> \o upper.q), r |-> sub(r, scale(b, d))]

div(a, b) == divmod_from(a, b, 1).q
rem(a, b) == divmod_from(a, b, 1).r

\* The value kept by a cast or a wrapping operation of `bytes` bytes, and
\* whether a value fits in them.
wrapping(a, bytes) == normal(SubSeq(a, 1, IF Len(a) < bytes THEN Len(a) ELSE bytes))
fits(a, bytes) == Len(a) <= bytes

\* usize::checked_mul, on an Option as and_then applies it.
checked_mul(size, factor, bytes) ==
    IF size = None THEN None
    ELSE LET product == mul(size[1], factor)
         IN  IF fits(product, bytes) THEN Some(product) ELSE None


MaxWrites == 1

\* VolumeBuffer::len / ArrayVoxelBuffer::len for a usize of `bytes` bytes.
len_checked(width, depth, height, bytes) ==
    checked_mul(checked_mul(checked_mul(Some(Digits(SIZE)), width, bytes), depth, bytes),
                height, bytes)

\* isize::MAX for a usize of `bytes` bytes: vec![0; len] panics above it.
isize_MAX(bytes) == [k \in 1..bytes |-> IF k = bytes THEN (U8Mod \div 2) - 1 ELSE U8Mod - 1]

\* VolumeBuffer::new / ArrayVoxelBuffer::new: [status, value].  The zero
\* bytes of data are not kept one by one: data is its length and the
\* writes made to it, latest last, a byte never written being 0.
new_checked(width, depth, height, bytes) ==
    LET l == len_checked(width, depth, height, bytes)
    IN  IF l = None
        THEN [status |-> "len_overflows_usize", value |-> None]
        ELSE IF less(isize_MAX(bytes), l[1])
        THEN [status |-> "capacity_overflow", value |-> None]
        ELSE [ status |-> "Ok",
               value  |-> Some([ width |-> width, depth |-> depth, height |-> height,
                                 data |-> [len |-> l[1], writes |-> <<>>] ]) ]

\* VolumeBuffer::id (and the test of voxel_indices): u32 comparisons, then
\* usize arithmetic, which cannot overflow below the length of data.
id_usize(b, x, y, z) ==
    IF ~less(x, b.width) \/ ~less(y, b.depth) \/ ~less(z, b.height)
    THEN None
    ELSE Some(add(x, add(mul(y, b.width), mul(z, mul(b.width, b.depth)))))

\* VolumeBuffer::coordinate: the product is taken in usize.
coordinate_usize(b, i) ==
    IF ~less(i, mul(mul(b.width, b.depth), b.height))
    THEN None
    ELSE LET z     == div(i, mul(b.width, b.depth))
             plane == sub(i, mul(z, mul(b.width, b.depth)))
         IN  Some(<<rem(plane, b.width), div(plane, b.width), z>>)

\* a * b on u32: [panic, value].  With overflow checks a product past 32
\* bits panics, without them it wraps.
u32_mul(a, b, overflow_checks) ==
    LET product == mul(a, b)
    IN  IF fits(product, U32_BYTES)
        THEN [panic |-> FALSE, value |-> product]
        ELSE [panic |-> overflow_checks, value |-> wrapping(product, U32_BYTES)]

\* VolumeBuffer::indices_id: [panic, value], value the Option of the index.
\* (self.width * self.depth * self.height) as usize is a u32 product.
indices_id(b, i, overflow_checks) ==
    LET plane  == u32_mul(b.width, b.depth, overflow_checks)
        volume == u32_mul(plane.value, b.height, overflow_checks)
    IN  IF plane.panic \/ volume.panic
        THEN [panic |-> "mul_overflow", value |-> None]
        ELSE IF ~less(i, volume.value)
        THEN [panic |-> "none", value |-> None]
        ELSE [panic |-> "none", value |-> Some(i)]

\* The voxel at linear index i of data.
read(data, i) ==
    LET ks == { k \in 1..Len(data.writes) : data.writes[k][1] = i }
    IN  IF ks = {} THEN ZERO_RGBA
        ELSE data.writes[CHOOSE k \in ks : \A j \in ks : j <= k][2]

\* VolumeBuffer::get_id: [panic, value].  &self.data[indices] panics when
\* the range ends past the length of data.
get_id(b, i, overflow_checks) ==
    LET r == indices_id(b, i, overflow_checks)
    IN  IF r.panic # "none" THEN [panic |-> r.panic, value |-> None]
        ELSE IF r.value = None THEN [panic |-> "out_of_bounds", value |-> None]
        ELSE IF less(b.data.len, mul(add(i, <<1>>), Digits(SIZE)))
        THEN [panic |-> "slice_out_of_range", value |-> None]
        ELSE [panic |-> "none", value |-> Some(read(b.data, i))]

\* VolumeBuffer::get / ArrayVoxelBuffer::voxel: [panic, value].
get(b, x, y, z) ==
    LET i == id_usize(b, x, y, z)
    IN  IF i = None THEN [panic |-> "out_of_bounds", value |-> None]
        ELSE [panic |-> "none", value |-> Some(read(b.data, i[1]))]

\* *get_mut(x, y, z) = rgba / *voxel_mut(x, y, z) = rgba: [panic, value],
\* value the buffer after the write.
get_mut(b, x, y, z, rgba) ==
    LET i == id_usize(b, x, y, z)
    IN  IF i = None THEN [panic |-> "out_of_bounds", value |-> None]
        ELSE [ panic |-> "none",
               value |-> Some([b EXCEPT !.data.writes = Append(@, <<i[1], rgba>>)]) ]

\* The dimensions, coordinates and indices explored: around 0, 2^16 and
\* 2^32.
TWO_16 == <<0, 0, 1>>
U32_MAX == <<U8Mod - 1, U8Mod - 1, U8Mod - 1, U8Mod - 1>>
TWO_32 == <<0, 0, 0, 0, 1>>
LargeDims == { <<>>, <<2>>, TWO_16, U32_MAX }
LargeCoordinates == { <<>>, <<1>>, TWO_16 }
LargeIds == { <<>>, <<1>>, <<8>>, TWO_16, U32_MAX, TWO_32, add(TWO_32, <<1>>) }

LargeCall(op, args, r) ==
    /\ ret' = [op |-> op, args |-> args, val |-> r.value]
    /\ err' = r.panic
    /\ UNCHANGED <<kind, it, yielded, save_locals, result, written, l_system, turtle, calls, usize_bytes>>

NewLarge ==
    /\ err = "none"
    /\ buf = None
    /\ \E width \in LargeDims, depth \in LargeDims, height \in LargeDims :
          LET r == new_checked(width, depth, height, usize_bytes)
          IN  /\ ret' = [op |-> "new", args |-> <<width, depth, height>>, val |-> r.value]
              /\ err' = IF r.status = "Ok" THEN "none" ELSE r.status
              /\ buf' = r.value
    /\ UNCHANGED <<kind, it, yielded, save_locals, result, written, l_system, turtle, calls, usize_bytes>>

GetMutLarge ==
    /\ err = "none"
    /\ buf # None
    /\ Len(buf[1].data.writes) < MaxWrites
    /\ \E x \in LargeCoordinates, y \in LargeCoordinates, z \in LargeCoordinates :
          LET r == get_mut(buf[1], x, y, z, RED)
          IN  /\ LargeCall("get_mut", <<x, y, z>>, r)
              /\ buf' = IF r.panic = "none" THEN r.value ELSE buf

GetLarge ==
    /\ err = "none"
    /\ buf # None
    /\ \E x \in LargeCoordinates, y \in LargeCoordinates, z \in LargeCoordinates :
          LargeCall("get", <<x, y, z>>, get(buf[1], x, y, z))
    /\ UNCHANGED buf

GetIdLarge ==
    /\ err = "none"
    /\ buf # None
    /\ kind = "VolumeBuffer"
    /\ \E i \in { i \in LargeIds : fits(i, usize_bytes) }, overflow_checks \in BOOLEAN :
          LargeCall("get_id", <<i>>, get_id(buf[1], i, overflow_checks))
    /\ UNCHANGED buf

CoordinateLarge ==
    /\ err = "none"
    /\ buf # None
    /\ kind = "VolumeBuffer"
    /\ \E i \in { i \in LargeIds : fits(i, usize_bytes) } :
          LargeCall("coordinate", <<i>>,
                    [panic |-> "none", value |-> coordinate_usize(buf[1], i)])
    /\ UNCHANGED buf

InitLarge ==
    /\ kind \in {"VolumeBuffer", "ArrayVoxelBuffer"}
    /\ usize_bytes \in {USIZE_BYTES_32, USIZE_BYTES_64}
    /\ buf = None
    /\ err = "none"
    /\ ret = NoCall
    /\ it = None
    /\ yielded = <<>>
    /\ save_locals = None
    /\ result = "none"
    /\ written = <<>>
    /\ l_system = None
    /\ turtle = None
    /\ calls = <<>>

NextLarge == NewLarge \/ GetMutLarge \/ GetLarge \/ GetIdLarge \/ CoordinateLarge

SpecLarge == InitLarge /\ [][NextLarge]_vars

\* The product width * depth * height, without wrap.
Volume(b) == mul(mul(b.width, b.depth), b.height)

InBounds(b, c) == less(c[1], b.width) /\ less(c[2], b.depth) /\ less(c[3], b.height)

LinearIndex(b, c) == add(c[1], add(mul(c[2], b.width), mul(c[3], mul(b.width, b.depth))))

WrittenAt(b, i) == { k \in 1..Len(b.data.writes) : b.data.writes[k][1] = i }

LastWritten(b, i) == b.data.writes[CHOOSE k \in WrittenAt(b, i) : \A j \in WrittenAt(b, i) : j <= k][2]

C18_State ==
    buf # None =>
        /\ ret.op \in {"get", "get_mut"} => (err # "none" <=> ~InBounds(buf[1], ret.args))
        /\ ret.op = "get" /\ err = "none" =>
              ret.val = Some(read(buf[1].data, LinearIndex(buf[1], ret.args)))
        /\ ret.op = "get_mut" /\ err = "none" =>
              get(buf[1], ret.args[1], ret.args[2], ret.args[3]).value = Some(RED)
        /\ ret.op = "get_id" /\ WrittenAt(buf[1], ret.args[1]) # {} =>
              /\ err = "none"
              /\ ret.val = Some(LastWritten(buf[1], ret.args[1]))

C18_Frame ==
    buf # None /\ ret'.op = "get_mut" /\ err' = "none" =>
        \A i \in LargeIds :
            i # LinearIndex(buf[1], ret'.args) =>
                read(buf'[1].data, i) = read(buf[1].data, i)

\* C18: get(x, y, z) and get_mut(x, y, z) fail exactly when x >= width,
\* y >= depth or z >= height, and otherwise give the voxel at linear index
\* x + y * width + z * width * depth; a value written through get_mut is
\* read back by get at that coordinate and by get_id at that index, and no
\* other voxel changes.
C18_CoordinateAccess == []C18_State /\ [][C18_Frame]_vars

\* C19: get_id(i) fails exactly when i >= width * depth * height, the
\* product taken without wrap, which is exactly when coordinate(i) is None,
\* whatever the size of the product.
C19_IdBoundIsVolume ==
    buf # None =>
        /\ ret.op = "get_id" => (err # "none" <=> ~less(ret.args[1], Volume(buf[1])))
        /\ ret.op = "coordinate" => (ret.val = None <=> ~less(ret.args[1], Volume(buf[1])))

C20_New ==
    ret.op = "new" =>
        LET size == mul(mul(mul(Digits(SIZE), ret.args[1]), ret.args[2]), ret.args[3])
        IN  /\ ret.val = None <=> ~fits(size, usize_bytes)
            /\ err # "none" <=> ret.val = None
            /\ buf = ret.val
            /\ ret.val # None =>
                  /\ buf[1].width = ret.args[1]
                  /\ buf[1].depth = ret.args[2]
                  /\ buf[1].height = ret.args[3]
                  /\ buf[1].data = [len |-> size, writes |-> <<>>]

C20_Dimensions ==
    buf # None =>
        /\ buf' # None
        /\ buf'[1].width = buf[1].width
        /\ buf'[1].depth = buf[1].depth
        /\ buf'[1].height = buf[1].height

\* C20: new(width, depth, height) fails exactly when
\* voxel_size * width * depth * height overflows usize, and otherwise
\* returns a buffer of these dimensions whose bytes are all zero; the
\* dimensions of a buffer never change.
C20_NewFailsOnOverflow == []C20_New /\ [][C20_Dimensions]_vars

---------------------------------------------------------------------------
\* distance * c truncated toward zero, c in units of 1 / TRIG_SCALE: the
\* whole number of the sign of the product whose magnitude is the largest
\* not above the product's.
Truncated(distance, c) ==
    CHOOSE q \in (0 - Abs(distance))..Abs(distance) :
        /\ Abs(q) * TRIG_SCALE <= Abs(distance * c)
        /\ Abs(distance * c) < (Abs(q) + 1) * TRIG_SCALE
        /\ q = 0 \/ Sign(q) = Sign(distance * c)

C21_Act ==
    LET t == turtle[1]
        call == calls'[Len(calls')]
    IN  /\ JustCalled({"step"}) =>
              /\ turtle' = Some([t EXCEPT !.x = t.x + Truncated(call.args[1], cos(t.heading)),
                                          !.y = t.y + Truncated(call.args[1], sin(t.heading))])
              /\ buf' = buf
              /\ err' = "none"
        /\ JustCalled({"left"}) =>
              /\ turtle' = Some([t EXCEPT !.heading = t.heading + call.args[1]])
              /\ buf' = buf
              /\ err' = "none"
        /\ JustCalled({"right"}) =>
              /\ turtle' = Some([t EXCEPT !.heading = t.heading - call.args[1]])
              /\ buf' = buf
              /\ err' = "none"

---------------------------------------------------------------------------
\* A point of the plane outside the x and y extent of buffer b.
Outside(b, q) == q[1] < 0 \/ q[2] < 0 \/ q[1] >= b.width \/ q[2] >= b.depth

\* The colour a drawing call has for the i-th point (from 0) of its line.
ColourAt(call, t, i) ==
    CASE call.op = "draw" -> (IF t.color = None THEN <<0, 0, 0, 255>> ELSE t.color[1])
      [] call.op = "draw_color" -> call.args[2]
      [] call.op = "draw_gradient" -> call.args[2][i + 1]

\* A drawing call whose line has a point outside the buffer, the first such
\* being the j-th, and which had a colour for every point before it, has
\* written these points, has moved the turtle to the end of the line, and
\* has failed: with error `missing` when it is a draw_gradient that has no
\* j-th colour, with the out-of-bounds error of the buffer otherwise.
C22_Draws(missing) ==
    JustCalled(DrawOps) =>
        LET t    == turtle[1]
            call == calls'[Len(calls')]
            a    == <<t.x, t.y>>
            b    == <<t.x + Truncated(call.args[1], cos(t.heading)),
                      t.y + Truncated(call.args[1], sin(t.heading))>>
            out  == { i \in 0..(PointCount(a, b) - 1) : Outside(buf, PointAt(a, b, i)) }
            colours == IF call.op = "draw_gradient"
                       THEN Len(call.args[2]) ELSE PointCount(a, b)
        IN  out # {} =>
               LET j == CHOOSE i \in out : \A k \in out : i <= k
               IN  colours >= j =>
                      /\ err' = IF colours = j THEN missing ELSE "out_of_bounds"
                      /\ \A i \in 0..(j - 1) :
                            voxel(buf', PointAt(a, b, i)[1], PointAt(a, b, i)[2], 0)
                               = ColourAt(call, t, i)
                      /\ <<turtle'[1].x, turtle'[1].y>> = b

---------------------------------------------------------------------------
\* The reserved characters, and the rule texts SYMBOLS ARROW SYMBOLS with
\* a left side that is not empty: one arrow, after the first character, and
\* reserved characters everywhere else.
Reserved == {"F", "f", "+", "-", "L", "R", "A", "B"}
ArrowAt(text) == { j \in 1..Len(text) : text[j] = ARROW }
IsRule(text) ==
    /\ Cardinality(ArrowAt(text)) = 1
    /\ 1 \notin ArrowAt(text)
    /\ \A j \in 1..Len(text) : text[j] \in Reserved \/ text[j] = ARROW

\* The symbol of a reserved character, the symbol a rule's left side begins
\* with, and the symbols of a rule's right side.
SymbolOf(ch) ==
    CASE ch = "F" -> "Draw"
      [] ch = "f" -> "Step"
      [] ch = "+" -> "Left"
      [] ch = "-" -> "Right"
      [] ch = "L" -> "DrawLeft"
      [] ch = "R" -> "DrawRight"
      [] ch = "A" -> "SubfigureA"
      [] ch = "B" -> "SubfigureB"
HeadOf(text) == SymbolOf(text[1])
RightSideOf(text) ==
    LET arrow == CHOOSE j \in ArrowAt(text) : TRUE
    IN  [j \in 1..(Len(text) - arrow) |-> SymbolOf(text[arrow + j])]

\* C23: of a list of rules whose left sides are not empty a grammar is
\* made, in which the production of a symbol s is the right side of the
\* last rule of the list whose left side begins with s, whatever follows s
\* in that left side, and in which a symbol that begins no left side has no
\* production.
C23_LastRuleOfHeadWins ==
    (/\ ret.op = "new"
     /\ \A k \in 1..Len(ret.args[2]) : IsRule(ret.args[2][k]))
        => /\ l_system # None
           /\ \A s \in { SymbolOf(ch) : ch \in Reserved } :
                 LET rules == ret.args[2]
                     heads == { k \in 1..Len(rules) : HeadOf(rules[k]) = s }
                 IN  IF heads = {}
                     THEN s \notin DOMAIN l_system[1].productions
                     ELSE l_system[1].productions[s]
                             = RightSideOf(rules[CHOOSE k \in heads : \A j \in heads : j <= k])

\* Two rules that begin with F, the second with a left side of two symbols:
\* the production of Draw is the right side of the second.
C23_Witness ==
    /\ ret.op = "new"
    /\ ret.args[2] = <<KochRule, <<"F", "L", ARROW, "-">>>>
    /\ l_system # None
    /\ l_system[1].productions = [s \in {"Draw"} |-> <<"Right">>]

====
